---- MODULE Spec2Model ----
(***************************************************************************)
(* Row assignment of Timeline.js: Diagram._prepareEntries followed by      *)
(* DiagramPositioner (constructor, calculate and the grid helpers).        *)
(*                                                                         *)
(* Entries are dataset records.  An absent dataset property is NoRow,     *)
(* NoEnd, NoRef or NoGroup.  Entry ids are 1..NumEntries in document      *)
(* order; MissingId is an id no element has.  Grid rows and slots are     *)
(* 0-based in the program and stored here in 1-based sequences.            *)
(***************************************************************************)
EXTENDS Integers, Sequences, FiniteSets, TLC

\* ------------------------------------------------------------------ bounds
NumEntries == 3
NumGrouped == 4
XLen == 4
MaxManualRow == 2
MaxGridRows == 3
NumPerGroup == 3

\* --------------------------------------------------------------- constants
YearStart == 1900
YearEnd == YearStart + XLen

NoRow == -1
NaNRow == -2
NoEnd == -1
NoRef == 0
NoGroup == ""
Master == ""
UndefinedGroup == "undefined"

MissingId == NoRef - 1
GrowCap == NumEntries + NumGrouped + MaxManualRow + 3

TypeError == "TypeError"
RangeError == "RangeError"
MarkError == "Error"
NoError == ""

Max(a, b) == IF a > b THEN a ELSE b
Min(a, b) == IF a < b THEN a ELSE b

\* document.getElementById(id) finds an element
Exists(ents, id) == id \in DOMAIN ents

\* the depth at which a recursion over the entries has met one entry twice
\* and so never returns (the engine ends it with a RangeError)
MaxDepth(ents) == Len(ents) + 1

\* ------------------------------------------------------------ grid methods
\* new Array(this._xLength).fill(false)
NewRow == [x \in 1..XLen |-> FALSE]

\* _addGridRow
addGridRow(g) == Append(g, NewRow)

\* grid[y] is defined
HasRow(g, y) == y >= 0 /\ y < Len(g)

\* _yearToGrid
yearToGrid(year) == year - YearStart

\* _checkGridSpace without the step that widens start === end to one slot
checkGridSpaceNoPoint(y, start, end, g) ==
    \A x \in start..(end - 1) : (x >= 0 /\ x < Len(g[y + 1])) => ~g[y + 1][x + 1]

\* _checkGridSpace: grid[y].slice(start, end).every(e => e === false)
checkGridSpace(y, start, end, g) ==
    LET e2 == IF start = end THEN end + 1 ELSE end
    IN  \A x \in start..(e2 - 1) : (x >= 0 /\ x < Len(g[y + 1])) => ~g[y + 1][x + 1]

\* _markGridSpace on an existing row (the caller tests HasRow for the throw)
markGridSpace(y, start, end, g, state) ==
    [g EXCEPT ![y + 1] =
        [x1 \in 1..Len(g[y + 1]) |->
            LET x == x1 - 1
            IN  IF \/ (x >= start /\ x < end)
                   \/ (start > 0 /\ x = start - 1)
                   \/ (end < Len(g[1]) - 1 /\ x = end)
                THEN state
                ELSE g[y + 1][x1]]]

\* _blockGridSpace that marks the two padding slots and not the span
blockGridSpacePaddingOnly(y, start, end, g) ==
    markGridSpace(y, end, end, markGridSpace(y, start, start, g, TRUE), TRUE)

\* _blockGridSpace
blockGridSpace(y, start, end, g) == markGridSpace(y, start, end, g, TRUE)

\* _freeGridSpace
freeGridSpace(y, start, end, g) == markGridSpace(y, start, end, g, FALSE)

\* _compareGridRows
compareGridRows(row1, row2) ==
    \A i \in 1..Len(row1) : ~(row1[i] /\ (i <= Len(row2) /\ row2[i]))

\* the for loop of _getGridOverlap left after its first turn
overlapFitsFirstRow(grid1, grid2, overlap) ==
    compareGridRows(grid1[Len(grid1) - overlap + 1], grid2[1])

\* the for loop of _getGridOverlap for one candidate overlap
overlapFits(grid1, grid2, overlap) ==
    \A i \in 0..(overlap - 1) :
        i < Len(grid1) =>
            compareGridRows(grid1[Len(grid1) - overlap + i + 1], grid2[i + 1])

RECURSIVE overlapLoop(_, _, _)
overlapLoop(grid1, grid2, overlap) ==
    IF overlap > 0
    THEN IF overlapFits(grid1, grid2, overlap)
         THEN overlap
         ELSE overlapLoop(grid1, grid2, overlap - 1)
    ELSE overlap

\* _getGridOverlap with the search started at the smaller height itself
\* rather than one below it
getGridOverlapFromHeight(grid1, grid2) ==
    overlapLoop(grid1, grid2, Min(Len(grid1), Len(grid2)))

\* _getGridOverlap
getGridOverlap(grid1, grid2) ==
    overlapLoop(grid1, grid2, Min(Len(grid1), Len(grid2)) - 1)

\* the for loop of _findGridSpace; NoRow when no probed row is free
RECURSIVE findLoop(_, _, _, _, _, _)
findLoop(i, test, above, start, end, g) ==
    IF i >= Len(g)
    THEN NoRow
    ELSE LET t == IF above THEN test - i ELSE test + i
         IN  IF t < 0 \/ t > Len(g) - 1
             THEN findLoop(i + 1, t, above, start, end, g)
             ELSE IF checkGridSpace(t, start, end, g)
                  THEN t
                  ELSE findLoop(i + 1, t, ~above, start, end, g)

\* _findGridSpace returning the grid's length after the push rather than
\* the index of the pushed row
findGridSpaceLengthAfterPush(start, end, g, near) ==
    LET first == IF near = NoRow \/ near = NaNRow \/ near = 0
                 THEN Len(g) \div 2
                 ELSE near
        found == findLoop(0, first, FALSE, start, end, g)
    IN  IF found # NoRow
        THEN [row |-> found, grid |-> g]
        ELSE [row |-> Len(g) + 1, grid |-> addGridRow(g)]

\* _findGridSpace with the first step of the probing made upwards (above
\* starting as true)
findGridSpaceAboveFirst(start, end, g, near) ==
    LET first == IF near = NoRow \/ near = NaNRow \/ near = 0
                 THEN Len(g) \div 2
                 ELSE near
        found == findLoop(0, first, TRUE, start, end, g)
    IN  IF found # NoRow
        THEN [row |-> found, grid |-> g]
        ELSE [row |-> Len(g), grid |-> addGridRow(g)]

\* _findGridSpace: near is NoRow for null; 0 and NaN are falsy as well
findGridSpace(start, end, g, near) ==
    LET first == IF near = NoRow \/ near = NaNRow \/ near = 0
                 THEN Len(g) \div 2
                 ELSE near
        found == findLoop(0, first, FALSE, start, end, g)
    IN  IF found # NoRow
        THEN [row |-> found, grid |-> g]
        ELSE [row |-> Len(g), grid |-> addGridRow(g)]

\* the while loop of _checkGridRange: a row, NoRow for undefined, or
\* NaNRow when grid[y1] is undefined and the slice throws
\* (y2 absent compares false both ways, so y1 climbs until the throw).
\* Rows stay below 10 here, where comparing the row strings and comparing
\* the row numbers agree.
RECURSIVE checkGridRange(_, _, _, _, _)
checkGridRange(y1, y2, start, end, g) ==
    IF y1 = y2
    THEN NoRow
    ELSE IF ~HasRow(g, y1)
         THEN NaNRow
         ELSE IF checkGridSpace(y1, start, end, g)
              THEN y1
              ELSE checkGridRange(IF y2 >= 0 /\ y1 > y2 THEN y1 - 1 ELSE y1 + 1,
                                  y2, start, end, g)

\* ----------------------------------------------------------- entry methods
\* d is the positioner with its document: d.ents the entries' datasets,
\* d.grid the master grid, d.gg the group grids, d.err the error thrown (if
\* any), d.log the row assignments made by the running step.

GetRowProp(e, rowProp) == IF rowProp = "row" THEN e.row ELSE e.groupRow

SetRowProp(e, rowProp, v) ==
    IF rowProp = "row" THEN [e EXCEPT !.row = v] ELSE [e EXCEPT !.groupRow = v]

\* the grid object a call holds: the master grid or a group's grid
HasGrid(d, gref) == gref = Master \/ gref \in DOMAIN d.gg

GetGrid(d, gref) == IF gref = Master THEN d.grid ELSE d.gg[gref]

PutGrid(d, gref, g) ==
    IF gref = Master THEN [d EXCEPT !.grid = g] ELSE [d EXCEPT !.gg[gref] = g]

Throw(d, e) == [d EXCEPT !.err = e]

\* what _calcLineEnd throws: nothing, a TypeError on a become naming no
\* element, a RangeError when the become chain never ends
RECURSIVE lineEndError(_, _, _)
lineEndError(ents, id, fuel) ==
    IF ents[id].become = NoRef
    THEN NoError
    ELSE IF ~Exists(ents, ents[id].become)
         THEN TypeError
         ELSE IF fuel = 0
              THEN RangeError
              ELSE lineEndError(ents, ents[id].become, fuel - 1)

\* _calcLineEnd
RECURSIVE calcLineEnd(_, _)
calcLineEnd(ents, id) ==
    IF ents[id].become # NoRef
    THEN calcLineEnd(ents, ents[id].become)
    ELSE ents[id].end

\* _setLineRow
RECURSIVE setLineRow(_, _, _, _, _)
setLineRow(d, id, rowProp, gref, fuel) ==
    LET entry == d.ents[id]
        nx == entry.become
    IN  IF d.err # NoError \/ nx = NoRef
        THEN d
        ELSE IF ~Exists(d.ents, nx)
        THEN Throw(d, TypeError)
        ELSE IF fuel = 0
        THEN Throw(d, RangeError)
        ELSE
        LET next == d.ents[nx]
            d1 == IF entry.group # next.group
                  THEN [d EXCEPT !.ents[nx].group =
                            IF entry.group = NoGroup THEN UndefinedGroup ELSE entry.group]
                  ELSE d
            old == GetRowProp(next, rowProp)
            g == GetGrid(d1, gref)
        IN  IF old # NoRow /\ ~HasRow(g, old)
            THEN Throw(d1, MarkError)
            ELSE
            LET d2 == IF old # NoRow
                      THEN PutGrid(d1, gref,
                                   freeGridSpace(old, yearToGrid(next.start),
                                                 yearToGrid(next.end), g))
                      ELSE d1
                d3 == [d2 EXCEPT !.ents[nx] =
                          SetRowProp(@, rowProp, GetRowProp(d2.ents[id], rowProp))]
            IN  setLineRow(d3, nx, rowProp, gref, fuel - 1)

\* the target _setEntryRow seeks: NoRef for null
seekOf(ents, id) ==
    LET entry == ents[id]
        bySplit == IF entry.split # NoRef /\ Exists(ents, entry.split)
                   THEN entry.split ELSE NoRef
    IN  IF entry.merge # NoRef /\ ents[entry.merge].split # id
        THEN entry.merge
        ELSE bySplit

\* _setEntryRow
RECURSIVE setEntryRow(_, _, _, _)
setEntryRow(d, id, group, fuel) ==
    LET entry == d.ents[id]
        rowProp == IF group THEN "groupRow" ELSE "row"
        gref == IF group THEN entry.group ELSE Master
    IN  IF d.err # NoError
        THEN d
        ELSE IF fuel = 0
        THEN Throw(d, RangeError)
        ELSE IF group /\ entry.group = NoGroup
        THEN d
        ELSE IF GetRowProp(entry, rowProp) # NoRow
        THEN d
        ELSE IF lineEndError(d.ents, id, MaxDepth(d.ents)) # NoError
        THEN Throw(d, lineEndError(d.ents, id, MaxDepth(d.ents)))
        ELSE IF entry.merge # NoRef /\ ~Exists(d.ents, entry.merge)
        THEN Throw(d, TypeError)
        ELSE
        LET start == yearToGrid(entry.start)
            end == yearToGrid(calcLineEnd(d.ents, id))
            seek == seekOf(d.ents, id)
            follow == seek # NoRef
                      /\ (~group \/ d.ents[seek].group = entry.group)
            d1 == IF follow /\ GetRowProp(d.ents[seek], rowProp) = NoRow
                  THEN setEntryRow(d, seek, group, fuel - 1)
                  ELSE d
        IN  IF d1.err # NoError
            THEN d1
            ELSE IF ~HasGrid(d1, gref)
            THEN Throw(d1, TypeError)
            ELSE
            LET near == IF follow
                        THEN (IF GetRowProp(d1.ents[seek], rowProp) = NoRow
                              THEN NaNRow
                              ELSE GetRowProp(d1.ents[seek], rowProp))
                        ELSE NoRow
                g == GetGrid(d1, gref)
                f == findGridSpace(start, end, g, near)
                d2 == [PutGrid(d1, gref, f.grid) EXCEPT
                          !.ents[id] = SetRowProp(@, rowProp, f.row),
                          !.log = Append(@, [id |-> id, seek |-> IF follow THEN seek ELSE NoRef,
                                             near |-> near, row |-> f.row,
                                             start |-> start, end |-> end,
                                             gref |-> gref, before |-> g])]
                d3 == setLineRow(d2, id, rowProp, gref, MaxDepth(d.ents))
            IN  IF d3.err # NoError
                THEN d3
                ELSE IF HasRow(GetGrid(d3, gref), f.row)
                     THEN PutGrid(d3, gref,
                                  blockGridSpace(f.row, start, end, GetGrid(d3, gref)))
                     ELSE d3

\* _moveEntry
moveEntry(d, id, row) ==
    LET entry == d.ents[id]
        s == yearToGrid(entry.start)
        e == yearToGrid(calcLineEnd(d.ents, id))
    IN  IF d.err # NoError
        THEN d
        ELSE IF lineEndError(d.ents, id, MaxDepth(d.ents)) # NoError
        THEN Throw(d, lineEndError(d.ents, id, MaxDepth(d.ents)))
        ELSE IF ~HasRow(d.grid, entry.row)
        THEN Throw(d, MarkError)
        ELSE
        LET d1 == [d EXCEPT !.grid = freeGridSpace(entry.row, s, e, d.grid),
                            !.ents[id].row = row]
            d2 == setLineRow(d1, id, "row", Master, MaxDepth(d.ents))
        IN  IF d2.err # NoError
            THEN d2
            ELSE IF ~HasRow(d2.grid, row)
                 THEN Throw(d2, MarkError)
                 ELSE [d2 EXCEPT !.grid = blockGridSpace(row, s, e, d2.grid)]

\* the loop of _adjustConnectedEntry over the entries linked to the moved one
RECURSIVE adjustLinked(_, _, _)
adjustLinked(d, id, k) ==
    IF k > Len(d.ents) \/ d.err # NoError
    THEN d
    ELSE LET link == d.ents[k]
         IN  IF (link.split = id \/ link.merge = id) /\ link.group = d.ents[id].group
             THEN IF lineEndError(d.ents, k, MaxDepth(d.ents)) # NoError
                  THEN Throw(d, lineEndError(d.ents, k, MaxDepth(d.ents)))
                  ELSE
                  LET move == checkGridRange(d.ents[id].row, link.row,
                                             yearToGrid(link.start),
                                             yearToGrid(calcLineEnd(d.ents, k)), d.grid)
                  IN  IF move = NaNRow
                      THEN Throw(d, TypeError)
                      ELSE IF move # NoRow
                           THEN adjustLinked(moveEntry(d, k, move), id, k + 1)
                           ELSE adjustLinked(d, id, k + 1)
             ELSE adjustLinked(d, id, k + 1)

\* _adjustConnectedEntry; range is this._groupRange
adjustConnectedEntry(d, id, range) ==
    LET entry == d.ents[id]
        targetID == IF entry.split # NoRef THEN entry.split ELSE entry.merge
    IN  IF d.err # NoError
        THEN d
        ELSE IF ~Exists(d.ents, targetID)
        THEN Throw(d, TypeError)
        ELSE IF d.ents[targetID].group = entry.group
        THEN d
        ELSE IF entry.group \notin DOMAIN range
        THEN Throw(d, TypeError)
        ELSE IF lineEndError(d.ents, id, MaxDepth(d.ents)) # NoError
        THEN Throw(d, lineEndError(d.ents, id, MaxDepth(d.ents)))
        ELSE
        LET target == d.ents[targetID]
            targetRow == IF target.row >= 0 /\ entry.row >= 0 /\ target.row - entry.row > 0
                         THEN range[entry.group][2]
                         ELSE range[entry.group][1]
            newRow == checkGridRange(targetRow, entry.row, yearToGrid(entry.start),
                                     yearToGrid(calcLineEnd(d.ents, id)), d.grid)
        IN  IF newRow = NaNRow
            THEN Throw(d, TypeError)
            ELSE IF newRow # NoRow
                 THEN adjustLinked(moveEntry(d, id, newRow), id, 1)
                 ELSE d

\* _getRowCount
getRowCount(ents) ==
    LET setRows == {i \in DOMAIN ents : ents[i].row # NoRow}
    IN  IF setRows = {}
        THEN 1
        ELSE IF \E i \in setRows : ents[i].row = NaNRow
             THEN NaNRow
             ELSE (CHOOSE m \in {ents[i].row : i \in setRows} :
                      \A i \in setRows : ents[i].row <= m) + 1

\* [...this._entries].filter(e => e.dataset.group) when grouped is TRUE,
\* filter(e => !e.dataset.group) otherwise: the ids kept, in document order
RECURSIVE FilterIds(_, _, _)
FilterIds(es, isGrouped, k) ==
    IF k > Len(es) THEN <<>>
    ELSE IF (es[k].group # NoGroup) = isGrouped
         THEN <<k>> \o FilterIds(es, isGrouped, k + 1)
         ELSE FilterIds(es, isGrouped, k + 1)

\* _listGroups
RECURSIVE listGroups(_, _, _)
listGroups(ents, k, result) ==
    IF k > Len(ents)
    THEN result
    ELSE IF ents[k].group # NoGroup /\ ~(\E j \in 1..Len(result) : result[j] = ents[k].group)
         THEN listGroups(ents, k + 1, Append(result, ents[k].group))
         ELSE listGroups(ents, k + 1, result)

\* _createGrid(entries)
createGrid(rows) == [y \in 1..rows |-> NewRow]

\* ------------------------------------------------ Diagram._prepareEntries
\* Diagram._calcEnd; NoEnd stands for the TypeError on a become naming no
\* element
calcEnd(ents, id) ==
    IF ents[id].end # NoEnd
    THEN ents[id].end
    ELSE IF ents[id].become # NoRef
         THEN IF Exists(ents, ents[id].become) THEN ents[ents[id].become].start ELSE NoEnd
         ELSE YearEnd

\* the validation loop of _prepareEntries for one reference attribute
validRef(ents, ref) == IF ref # NoRef /\ ~Exists(ents, ref) THEN NoRef ELSE ref

validLinks(ents, links) == IF \E id \in links : ~Exists(ents, id) THEN {} ELSE links

\* the body of the loop of _prepareEntries for one entry
prepareEntry(ents, id) ==
    [ents EXCEPT ![id] =
        [@ EXCEPT !.end = calcEnd(ents, id),
                  !.start = IF @ < YearStart THEN YearStart ELSE @,
                  !.become = validRef(ents, @),
                  !.split = validRef(ents, @),
                  !.merge = validRef(ents, @),
                  !.links = validLinks(ents, @)]]

\* _prepareEntries: the entries after the loop, or <<>> when _calcEnd throws
RECURSIVE prepareEntries(_, _)
prepareEntries(ents, k) ==
    IF k > Len(ents)
    THEN ents
    ELSE IF calcEnd(ents, k) = NoEnd
         THEN <<>>
         ELSE prepareEntries(prepareEntry(ents, k), k + 1)

\* ------------------------------------------------------------------ inputs
\* spans of the axis: the whole axis, its first year, its last year, the
\* years between
Whole == <<YearStart, YearEnd>>
Early == <<YearStart, YearStart + 1>>
Late == <<YearEnd - 1, YearEnd>>
Mid == <<YearStart + 1, YearEnd - 1>>

SpanKinds == {Whole, Early, Late}

\* point entries (start = end) at the first, second, last and end year
PointSpans == {<<y, y>> : y \in {YearStart, YearStart + 1, YearEnd - 1, YearEnd}}

Plain(sp) ==
    [start |-> sp[1], end |-> sp[2], row |-> NoRow, groupRow |-> NoRow,
     group |-> NoGroup, become |-> NoRef, split |-> NoRef, merge |-> NoRef,
     links |-> {}]

\* the lists of n entries with spans of S and no other attribute
Lists(n, S) == {[i \in 1..n |-> Plain(f[i])] : f \in [1..n -> S]}

ManualRows == 0..MaxManualRow

Pairs(n) == {p \in (1..n) \X (1..n) : p[1] # p[2]}

\* base with a manual row on one entry
WithRow(base) ==
    {[base EXCEPT ![i].row = r] : i \in DOMAIN base, r \in ManualRows}

\* base with one become, split or merge between two entries
WithRelation(base) ==
    {[base EXCEPT ![p[1]].become = p[2]] : p \in Pairs(Len(base))}
    \cup {[base EXCEPT ![p[1]].split = p[2]] : p \in Pairs(Len(base))}
    \cup {[base EXCEPT ![p[1]].merge = p[2]] : p \in Pairs(Len(base))}

\* base with one become and a manual row on one of its two ends
WithManualBecome(base) ==
    {[base EXCEPT ![p[1]].become = p[2], ![p[k]].row = r] :
        p \in Pairs(Len(base)), k \in 1..2, r \in ManualRows}

\* entry a of base with attribute kind ("split" or "merge") naming entry b
Refer(base, a, kind, b) ==
    IF kind = "split" THEN [base EXCEPT ![a].split = b] ELSE [base EXCEPT ![a].merge = b]

\* base with two entries that name each other by split or merge
WithMutualRelation(base) ==
    {Refer(Refer(base, p[1], k1, p[2]), p[2], k2, p[1]) :
        p \in Pairs(Len(base)), k1 \in {"split", "merge"}, k2 \in {"split", "merge"}}

\* base with one entry that has a split and a merge, to the same entry or to
\* two entries
WithSplitAndMerge(base) ==
    {[base EXCEPT ![i].split = j, ![i].merge = k] :
        i \in DOMAIN base, j \in DOMAIN base, k \in DOMAIN base}
    \ {x \in {[base EXCEPT ![i].split = j, ![i].merge = k] :
                 i \in DOMAIN base, j \in DOMAIN base, k \in DOMAIN base} :
           \E i \in DOMAIN x : x[i].split = i \/ x[i].merge = i}

\* base with a reference attribute naming no element on one entry, whose
\* end is given (k = 1) or left out
WithMissingRef(base) ==
    UNION {{[base EXCEPT ![i].become = MissingId, ![i].end = IF k = 1 THEN @ ELSE NoEnd],
            [base EXCEPT ![i].split = MissingId, ![i].end = IF k = 1 THEN @ ELSE NoEnd],
            [base EXCEPT ![i].merge = MissingId, ![i].end = IF k = 1 THEN @ ELSE NoEnd],
            [base EXCEPT ![i].links = {MissingId}, ![i].end = IF k = 1 THEN @ ELSE NoEnd]} :
           i \in DOMAIN base, k \in 1..2}

\* base with an entry that has no end and starts before the axis or becomes
\* another entry, or with an entry that links to another
WithDerivedEnd(base) ==
    {[base EXCEPT ![p[1]].end = NoEnd, ![p[1]].start = YearStart - 1] :
        p \in Pairs(Len(base))}
    \cup {[base EXCEPT ![p[1]].end = NoEnd, ![p[1]].become = p[2]] :
        p \in Pairs(Len(base))}
    \cup {[base EXCEPT ![p[1]].links = {p[2]}] : p \in Pairs(Len(base))}

GroupNames == <<"g1", "g2", "g3">>

\* the group labellings of n entries, the groups named in the order they
\* first appear; lab[i] = 0 for no group, and one entry at least has a group
Labellings(n) ==
    {lab \in [1..n -> 0..Len(GroupNames)] :
        /\ \E i \in 1..n : lab[i] # 0
        /\ \A i \in 1..n : lab[i] > 1 => \E j \in 1..(i - 1) : lab[j] = lab[i] - 1}

\* the labellings that give every entry a group
FullLabellings(n) == {lab \in Labellings(n) : \A i \in 1..n : lab[i] # 0}

Labelled(base, lab) ==
    [i \in DOMAIN base |->
        [base[i] EXCEPT !.group = IF lab[i] = 0 THEN NoGroup ELSE GroupNames[lab[i]]]]

\* entries with spans and nothing else
PlainInput(x) == x \in Lists(NumEntries, SpanKinds \cup {Mid} \cup PointSpans)

\* ungrouped entries with one manual row, one relation, both on a become,
\* two entries naming each other, or a split and a merge on one entry
UngroupedInput(x) ==
    \E b \in Lists(NumEntries, SpanKinds) :
        x \in WithRow(b) \cup WithRelation(b) \cup WithManualBecome(b)
                \cup WithMutualRelation(b) \cup WithSplitAndMerge(b)

\* entries as the document gives them to _prepareEntries: a reference to
\* no element, a missing end, a start before the axis
RawInput(x) ==
    \E b \in Lists(NumEntries, SpanKinds) :
        x \in WithMissingRef(b) \cup WithDerivedEnd(b)

\* grouped entries with spans and nothing else
GroupedInput(x) ==
    \E b \in Lists(NumGrouped, SpanKinds), lab \in FullLabellings(NumGrouped) :
        x = Labelled(b, lab)

\* grouped and ungrouped entries, with one manual row or one relation or
\* neither
MixedInput(x) ==
    \E b \in Lists(NumEntries, {Early, Late}), lab \in Labellings(NumEntries) :
        x \in {Labelled(b, lab)} \cup WithRow(Labelled(b, lab))
                \cup WithRelation(Labelled(b, lab))

\* base with its first entry split from or merging with an entry of
\* another group
WithCrossRelation(base) ==
    {[base EXCEPT ![1].split = t] :
        t \in {q \in DOMAIN base : base[q].group # base[1].group}}
    \cup {[base EXCEPT ![1].merge = t] :
        t \in {q \in DOMAIN base : base[q].group # base[1].group}}

\* grouped entries, the first of them split from or merging with an entry
\* of another group
ConnectedGroupsInput(x) ==
    \E b \in Lists(NumGrouped, {Early, Late}), lab \in FullLabellings(NumGrouped) :
        x \in WithCrossRelation(Labelled(b, lab))

\* three groups of NumPerGroup entries each, in document order, the
\* entries of a group all early or all late on the axis
TallGroupsInput(x) ==
    \E f \in [1..Len(GroupNames) -> {Early, Late}] :
        x = [i \in 1..(Len(GroupNames) * NumPerGroup) |->
                [Plain(f[((i - 1) \div NumPerGroup) + 1]) EXCEPT
                    !.group = GroupNames[((i - 1) \div NumPerGroup) + 1]]]

\* ------------------------------------------------------------------- state
VARIABLES
    input,       \* the entries as the document first had them
    ents,        \* the entries' datasets
    grid,        \* this._grid
    groups,      \* this._groups
    groupGrids,  \* this._groupGrids
    groupRange,  \* this._groupRange
    grouped,     \* calculate: grouped
    ungrouped,   \* calculate: ungrouped
    increment,   \* calculate: increment
    rowCount,    \* calculate: rowCount
    idx,         \* position of the running loop (1-based)
    pc,          \* the statement the layout is at
    err,         \* the error that ended the layout
    log,         \* the row assignments of the last _setEntryRow step
    stackLog,    \* the overlaps computed while stacking the groups
    pass,        \* 1 in the first layout, 2 in the second
    rows1,       \* the rows the first layout ended with
    container,   \* the children of the container element (Timeline)
    call,        \* the last addEntry call: its data and the container before it
    gcall,       \* the last grid method call: its arguments, the grid before it, its result
    timers,      \* the timers panToEntry has set and that have not fired, oldest first
    classList,   \* the highlight and hover classes of each entry
    dispatched,  \* the timelineFind events dispatched on the container
    panned       \* the ids panToEntry was called with

\* the state of the calls made on Timeline and on the grid directly
panVars == <<timers, classList, dispatched, panned>>

apiVars == <<container, call, gcall, timers, classList, dispatched, panned>>

vars == <<input, ents, grid, groups, groupGrids, groupRange, grouped, ungrouped,
          increment, rowCount, idx, pc, err, log, stackLog, pass, rows1,
          container, call, gcall, timers, classList, dispatched, panned>>

\* panToEntry has not been called
PanIdle ==
    /\ timers = <<>>
    /\ classList = <<>>
    /\ dispatched = <<>>
    /\ panned = <<>>

Init ==
    /\ \/ PlainInput(input)
       \/ UngroupedInput(input)
       \/ RawInput(input)
       \/ GroupedInput(input)
       \/ MixedInput(input)
       \/ ConnectedGroupsInput(input)
       \/ TallGroupsInput(input)
    /\ ents = input
    /\ grid = <<>>
    /\ groups = <<>>
    /\ groupGrids = <<>>
    /\ groupRange = <<>>
    /\ grouped = <<>>
    /\ ungrouped = <<>>
    /\ increment = 0
    /\ rowCount = 0
    /\ idx = 1
    /\ pc = "prepare"
    /\ err = NoError
    /\ log = <<>>
    /\ stackLog = <<>>
    /\ pass = 1
    /\ rows1 = <<>>
    /\ container = <<>>
    /\ call = <<>>
    /\ gcall = <<>>
    /\ PanIdle

\* the positioner as the record the entry methods work on
Positioner == [ents |-> ents, grid |-> grid, gg |-> groupGrids, err |-> NoError,
               log |-> <<>>]

\* a step of calculate() ends in d: the error is thrown to the caller, or
\* the layout goes on at statement next
Continue(d, next) ==
    /\ ents' = d.ents
    /\ grid' = d.grid
    /\ groupGrids' = d.gg
    /\ log' = d.log
    /\ err' = d.err
    /\ pc' = IF d.err # NoError THEN "error" ELSE next

\* Diagram._prepareEntries
PrepareEntries ==
    /\ pc = "prepare"
    /\ LET p == prepareEntries(ents, 1)
       IN  IF p = <<>>
           THEN /\ pc' = "error"
                /\ err' = TypeError
                /\ ents' = ents
           ELSE /\ pc' = "construct"
                /\ err' = err
                /\ ents' = p
    /\ UNCHANGED <<input, grid, groups, groupGrids, groupRange, grouped, ungrouped,
                   increment, rowCount, idx, log, stackLog, pass, rows1>>
    /\ UNCHANGED apiVars

\* new DiagramPositioner(entries, yearStart, yearEnd)
Construct ==
    /\ pc = "construct"
    /\ grid' = createGrid(getRowCount(ents))
    /\ groups' = listGroups(ents, 1, <<>>)
    /\ groupGrids' = [g \in {groups'[j] : j \in 1..Len(groups')} |-> createGrid(1)]
    /\ pc' = "calculate"
    /\ UNCHANGED <<input, ents, groupRange, grouped, ungrouped, increment, rowCount,
                   idx, err, log, stackLog, pass, rows1>>
    /\ UNCHANGED apiVars

\* calculate(): the partition of the entries
CalculateStart ==
    /\ pc = "calculate"
    /\ grouped' = FilterIds(ents, TRUE, 1)
    /\ ungrouped' = FilterIds(ents, FALSE, 1)
    /\ groupRange' = <<>>
    /\ increment' = 0
    /\ stackLog' = <<>>
    /\ idx' = 1
    /\ pc' = IF Len(grouped') > 0 THEN "groupRows" ELSE "stack"
    /\ UNCHANGED <<input, ents, grid, groups, groupGrids, rowCount, err, log,
                   pass, rows1>>
    /\ UNCHANGED apiVars

\* calculate(): this._setEntryRow(entry, true) for one grouped entry
GroupEntryRow ==
    /\ pc = "groupRows"
    /\ idx <= Len(grouped)
    /\ LET d == setEntryRow(Positioner, grouped[idx], TRUE, MaxDepth(ents))
       IN  Continue(d, IF idx = Len(grouped) THEN "stack" ELSE "groupRows")
    /\ idx' = IF idx = Len(grouped) THEN 1 ELSE idx + 1
    /\ UNCHANGED <<input, groups, groupRange, grouped, ungrouped, increment,
                   rowCount, stackLog, pass, rows1>>
    /\ UNCHANGED apiVars

\* the rows the stacking gives the entries of one group
stackRows(es, group, inc) ==
    [i \in DOMAIN es |->
        IF es[i].group = group
        THEN [es[i] EXCEPT !.row = IF es[i].groupRow < 0 THEN NaNRow
                                   ELSE es[i].groupRow + inc]
        ELSE es[i]]

\* calculate(): the body of this._groups.forEach for one group
StackGroup ==
    /\ pc = "stack"
    /\ idx <= Len(groups)
    /\ LET group == groups[idx]
           g == groupGrids[group]
           overlap == IF idx # 1 THEN getGridOverlap(groupGrids[groups[idx - 1]], g) ELSE 0
           inc == increment - overlap
       IN  /\ ents' = stackRows(ents, group, inc)
           /\ groupRange' = [gr \in DOMAIN groupRange \cup {group} |->
                                IF gr = group THEN <<inc, inc + Len(g)>> ELSE groupRange[gr]]
           /\ increment' = inc + Len(g)
           /\ stackLog' = Append(stackLog, [group |-> group, overlap |-> overlap,
                                            offset |-> inc, height |-> Len(g)])
    /\ idx' = idx + 1
    /\ UNCHANGED <<input, grid, groups, groupGrids, grouped, ungrouped, rowCount, pc,
                   err, log, pass, rows1>>
    /\ UNCHANGED apiVars

\* calculate(): const rowCount = this._getRowCount(this._entries)
RowCount ==
    /\ pc = "stack"
    /\ idx > Len(groups)
    /\ rowCount' = getRowCount(ents)
    /\ pc' = "grow"
    /\ UNCHANGED <<input, ents, grid, groups, groupGrids, groupRange, grouped,
                   ungrouped, increment, idx, err, log, stackLog, pass, rows1>>
    /\ UNCHANGED apiVars

\* _addGridRowsUntil: one turn of the while loop
AddGridRow ==
    /\ pc = "grow"
    /\ Len(grid) - 1 # rowCount
    /\ Len(grid) < GrowCap
    /\ grid' = addGridRow(grid)
    /\ UNCHANGED <<input, ents, groups, groupGrids, groupRange, grouped, ungrouped,
                   increment, rowCount, idx, pc, err, log, stackLog, pass, rows1>>
    /\ UNCHANGED apiVars

\* the loop of calculate() that blocks the grouped entries' spaces
RECURSIVE blockGrouped(_, _, _)
blockGrouped(d, list, k) ==
    IF k > Len(list) \/ d.err # NoError
    THEN d
    ELSE LET entry == d.ents[list[k]]
         IN  IF ~HasRow(d.grid, entry.row)
             THEN Throw(d, MarkError)
             ELSE blockGrouped([d EXCEPT !.grid =
                                   blockGridSpace(entry.row, yearToGrid(entry.start),
                                                  yearToGrid(entry.end), d.grid)],
                               list, k + 1)

\* the loop of calculate() that adjusts the connections between groups
RECURSIVE adjustGrouped(_, _, _, _)
adjustGrouped(d, list, range, k) ==
    IF k > Len(list) \/ d.err # NoError
    THEN d
    ELSE LET entry == d.ents[list[k]]
         IN  IF entry.split # NoRef \/ entry.merge # NoRef
             THEN adjustGrouped(adjustConnectedEntry(d, list[k], range), list, range, k + 1)
             ELSE adjustGrouped(d, list, range, k + 1)

\* calculate(): the while loop is left, the grouped spaces are blocked and
\* the connections between groups adjusted
BlockAndAdjust ==
    /\ pc = "grow"
    /\ Len(grid) - 1 = rowCount
    /\ LET d == adjustGrouped(blockGrouped(Positioner, grouped, 1), grouped, groupRange, 1)
       IN  Continue(d, IF Len(ungrouped) > 0 THEN "ungrouped" ELSE "done")
    /\ idx' = 1
    /\ UNCHANGED <<input, groups, groupRange, grouped, ungrouped, increment, rowCount,
                   stackLog, pass, rows1>>
    /\ UNCHANGED apiVars

\* calculate(): this._setEntryRow(entry) for one ungrouped entry
EntryRow ==
    /\ pc = "ungrouped"
    /\ idx <= Len(ungrouped)
    /\ LET d == setEntryRow(Positioner, ungrouped[idx], FALSE, MaxDepth(ents))
       IN  Continue(d, IF idx = Len(ungrouped) THEN "done" ELSE "ungrouped")
    /\ idx' = idx + 1
    /\ UNCHANGED <<input, groups, groupRange, grouped, ungrouped, increment,
                   rowCount, stackLog, pass, rows1>>
    /\ UNCHANGED apiVars

\* the layout is invoked again on the entries as the first layout left them
Relayout ==
    /\ pc = "done"
    /\ pass = 1
    /\ pass' = 2
    /\ rows1' = [i \in DOMAIN ents |-> ents[i].row]
    /\ pc' = "construct"
    /\ UNCHANGED <<input, ents, grid, groups, groupGrids, groupRange, grouped,
                   ungrouped, increment, rowCount, idx, err, log, stackLog>>
    /\ UNCHANGED apiVars

Next ==
    \/ PrepareEntries
    \/ Construct
    \/ CalculateStart
    \/ GroupEntryRow
    \/ StackGroup
    \/ RowCount
    \/ AddGridRow
    \/ BlockAndAdjust
    \/ EntryRow
    \/ Relayout

Spec == Init /\ [][Next]_vars

\* Diagram._prepareRows: rows = dp.rows
rows == Len(grid)

\* ------------------------------------------------------ claims: vocabulary
\* calculate() has returned (first layout)
Done1 == pc = "done" /\ pass = 1

\* the entries a reference attribute of entry i names
RefsOf(x, i) == {x[i].become, x[i].split, x[i].merge} \ {NoRef}

\* every reference names an element
ValidRefs(x) ==
    \A i \in DOMAIN x : RefsOf(x, i) \cup x[i].links \subseteq DOMAIN x

RECURSIVE ReachedFrom(_, _, _)
ReachedFrom(x, S, n) ==
    IF n = 0 THEN S
    ELSE ReachedFrom(x, S \cup UNION {RefsOf(x, j) : j \in S}, n - 1)

\* no entry reaches itself along become, split and merge
Acyclic(x) ==
    \A i \in DOMAIN x : i \notin ReachedFrom(x, RefsOf(x, i), Len(x))

\* a and b are connected by become, split or merge
Connected(x, a, b) == b \in RefsOf(x, a) \/ a \in RefsOf(x, b)

\* the [start, end) intervals of a and b have a year in common
Overlap(x, a, b) == Max(x[a].start, x[b].start) < Min(x[a].end, x[b].end)

Abs(n) == IF n < 0 THEN 0 - n ELSE n

RECURSIVE SumHeights(_, _)
SumHeights(sl, k) == IF k > Len(sl) THEN 0 ELSE sl[k].height + SumHeights(sl, k + 1)

RECURSIVE SumOverlaps(_, _)
SumOverlaps(sl, k) == IF k > Len(sl) THEN 0 ELSE sl[k].overlap + SumOverlaps(sl, k + 1)

\* ------------------------------------------------------------------ claims

\* C1: after calculate(), two distinct entries that are not connected by
\* become, split or merge and whose [start, end) intervals overlap have
\* different rows.
C1_OverlappingEntriesDiffer ==
    Done1 =>
        \A a, b \in DOMAIN ents :
            (a # b /\ ~Connected(ents, a, b) /\ Overlap(ents, a, b))
                => ents[a].row # ents[b].row

\* C2: after calculate(), every entry with a become has the row of its
\* successor.
C2_BecomeSharesRow ==
    Done1 =>
        \A e \in DOMAIN ents :
            ents[e].become # NoRef => ents[e].row = ents[ents[e].become].row

\* C3: an entry that enters calculate() with a manual row leaves it with
\* that row.
C3_ManualRowKept ==
    Done1 =>
        \A i \in DOMAIN ents : input[i].row # NoRow => ents[i].row = input[i].row

\* C4: when an attribute names an id no entry has, no error is raised and,
\* once _prepareEntries has run, the attribute is gone.
C4_MissingRefRecovered ==
    ~ValidRefs(input) =>
        /\ pc # "error"
        /\ pc # "prepare" => ValidRefs(ents)

\* C5: on valid acyclic references the loop of _addGridRowsUntil stops: it
\* only adds rows and is left when the last row index equals rowCount, so
\* while it runs the last row index has not passed rowCount.
C5_GrowLoopStops ==
    (pc = "grow" /\ pass = 1 /\ ValidRefs(input) /\ Acyclic(input))
        => Len(grid) - 1 <= rowCount

\* C6: the second layout ends with the rows the first layout ended with.
C6_SecondLayoutSameRows ==
    (pc = "done" /\ pass = 2) =>
        \A i \in DOMAIN ents : ents[i].row = rows1[i]

\* C7: an entry with a split or merge target gets a row such that no row of
\* the grid free for its span is strictly nearer to the target's row.
C7_NearestFreeRow ==
    \A k \in 1..Len(log) :
        log[k].seek # NoRef =>
            \A y \in 0..(Len(log[k].before) - 1) :
                checkGridSpace(y, log[k].start, log[k].end, log[k].before)
                    => Abs(y - log[k].near) >= Abs(log[k].row - log[k].near)

\* all entries grouped, no manual row, no split or merge between groups
AllGrouped(x) ==
    \A i \in DOMAIN x :
        /\ x[i].group # NoGroup
        /\ x[i].row = NoRow
        /\ \A j \in ({x[i].split, x[i].merge} \ {NoRef}) \cap DOMAIN x :
               x[j].group = x[i].group

\* C8: when all entries are grouped, the row count is the sum of the group
\* grid heights minus the overlaps of adjacent groups.
C8_RowCountIsStackHeight ==
    (Done1 /\ AllGrouped(input)) =>
        rows = SumHeights(stackLog, 1) - SumOverlaps(stackLog, 1)

\* C9: after calculate(), every entry has a row r with 0 <= r < rows.
C9_RowsInRange ==
    pc = "done" =>
        \A i \in DOMAIN ents : ents[i].row >= 0 /\ ents[i].row < rows

\* C9 witness: a finished layout of grouped and ungrouped entries on
\* several rows, the highest row in use among them.
C9_Witness ==
    /\ Done1
    /\ Len(grouped) > 0 /\ Len(ungrouped) > 0
    /\ \E i, j \in DOMAIN ents : ents[i].row = 0 /\ ents[j].row >= 2

\* C10: the overlap of two adjacent groups lies in 0 .. min(heights) - 1, so
\* offsets are non-negative and strictly increasing.
C10_OverlapBounded ==
    \A k \in 1..Len(stackLog) :
        /\ stackLog[k].offset >= 0
        /\ k > 1 =>
            /\ stackLog[k].overlap >= 0
            /\ stackLog[k].overlap
                   <= Min(stackLog[k - 1].height, stackLog[k].height) - 1
            /\ stackLog[k].offset > stackLog[k - 1].offset

\* C10 witness: two adjacent groups of two rows each that overlap by a row.
C10_Witness ==
    \E k \in 2..Len(stackLog) :
        /\ stackLog[k].overlap = 1
        /\ stackLog[k - 1].height = 2
        /\ stackLog[k].height = 2

\* an entry and its become successor both name a group, and not the same
GroupMismatch(x) ==
    \E e \in DOMAIN x :
        /\ x[e].become \in DOMAIN x
        /\ x[e].group # NoGroup
        /\ x[x[e].become].group # NoGroup
        /\ x[x[e].become].group # x[e].group

\* C11: when an entry and its become successor name different groups,
\* calculate() raises no error and ends with the successor in the
\* predecessor's group.
C11_GroupMismatchRecovered ==
    (pass = 1 /\ GroupMismatch(input)) =>
        /\ pc # "error"
        /\ pc = "done" =>
               \A e \in DOMAIN ents :
                   ents[e].become # NoRef
                       => ents[ents[e].become].group = ents[e].group

\* ------------------------------------------------- Timeline.addEntry
\* calculate() is not running
CalculateIdle ==
    /\ input = <<>>
    /\ ents = <<>>
    /\ groups = <<>>
    /\ groupGrids = <<>>
    /\ groupRange = <<>>
    /\ grouped = <<>>
    /\ ungrouped = <<>>
    /\ increment = 0
    /\ rowCount = 0
    /\ idx = 1
    /\ pc = "idle"
    /\ err = NoError
    /\ log = <<>>
    /\ stackLog = <<>>
    /\ pass = 1
    /\ rows1 = <<>>

\* no positioner is constructed
LayoutIdle == CalculateIdle /\ grid = <<>>

layoutVars == <<input, ents, grid, groups, groupGrids, groupRange, grouped, ungrouped,
                increment, rowCount, idx, pc, err, log, stackLog, pass, rows1>>

\* the id of the container element (this._container)
ContainerId == "diagram"

\* the ids an entry object may give; one is the container's own
EntryIds == {"a", "b", "c", ContainerId}

\* the keys of an entry object and the values they may hold
DataKeys == {"id", "name", "start", "end"}

DataValues(k) ==
    IF k = "id" THEN EntryIds
    ELSE IF k = "name" THEN {"A"}
    ELSE IF k = "start" THEN {"1950"}
    ELSE {"1960"}

\* the entry objects: any own keys among DataKeys
DataObjects ==
    UNION {{d \in [K -> UNION {DataValues(k) : k \in DataKeys}] :
               \A k \in K : d[k] \in DataValues(k)} : K \in SUBSET DataKeys}

\* data[k]: undefined, stored as the string "undefined", when k is no key
prop(data, k) == IF k \in DOMAIN data THEN data[k] ELSE "undefined"

\* document.getElementById(id) in the document of the container and its
\* children
getElementById(children, id) ==
    id = ContainerId \/ \E i \in 1..Len(children) : children[i].id = id

\* [ "id", "name", "start" ].some(...): one required key is enough
hasRequiredSome(data) == \E i \in {"id", "name", "start"} : i \in DOMAIN data

\* [ "id", "name", "start" ].every((i) => Object.hasOwn(data, i))
hasRequired(data) == \A i \in {"id", "name", "start"} : i \in DOMAIN data

\* the element addEntry creates
createEntry(data) ==
    [id |-> prop(data, "id"),
     innerText |-> prop(data, "name"),
     dataset |-> [k \in DOMAIN data \ {"id", "name"} |-> data[k]]]

\* Timeline.addEntry(data): the children of the container after the call
addEntry(children, data) ==
    IF getElementById(children, prop(data, "id"))
    THEN children
    ELSE IF ~hasRequired(data)
         THEN children
         ELSE Append(children, createEntry(data))

\* the container holds no entry, or one entry defined in the HTML
TimelineInit ==
    /\ LayoutIdle
    /\ container \in {<<>>} \cup {<<createEntry(d)>> :
                                     d \in {x \in DataObjects :
                                               /\ {"id", "name", "start"} \subseteq DOMAIN x
                                               /\ x["id"] # ContainerId}}
    /\ call = <<>>
    /\ gcall = <<>>
    /\ PanIdle

\* a call of addEntry, as the constructor makes for each object of entries
AddEntry ==
    /\ \E data \in DataObjects :
          /\ container' = addEntry(container, data)
          /\ call' = <<[data |-> data, before |-> container]>>
    /\ UNCHANGED gcall
    /\ UNCHANGED panVars
    /\ UNCHANGED layoutVars

TimelineNext == AddEntry

TimelineSpec == TimelineInit /\ [][TimelineNext]_vars

\* C12: addEntry(data) appends exactly one element, with data's id, when
\* data has id, name and start and no element has that id; otherwise the
\* container is as it was before the call.
C12_AddEntryOneOrNone ==
    \A c \in 1..Len(call) :
        LET data == call[c].data
            before == call[c].before
            has == {"id", "name", "start"} \subseteq DOMAIN data
            taken == has /\ (data["id"] = ContainerId
                             \/ \E i \in 1..Len(before) : before[i].id = data["id"])
        IN  IF has /\ ~taken
            THEN /\ Len(container) = Len(before) + 1
                 /\ SubSeq(container, 1, Len(before)) = before
                 /\ container[Len(container)].id = data["id"]
            ELSE container = before

\* C12 witness: an entry with an end was added to a container that held one
\* entry already.
C12_Witness ==
    /\ Len(call) = 1
    /\ Len(call[1].before) = 1
    /\ Len(container) = 2
    /\ container[2].id = call[1].data["id"]
    /\ "end" \in DOMAIN container[2].dataset

\* C13: on valid references the recursion of _setEntryRow into an unresolved
\* split or merge target ends: the engine never meets its call depth limit.
C13_SeekRecursionEnds ==
    (ValidRefs(input) /\ \A i \in DOMAIN input : input[i].become = NoRef)
        => err # RangeError

\* the target the entry is to seek: its split source, else its merge target
\* unless that target's split names the entry, else none
SplitFirstTarget(x, id) ==
    IF x[id].split # NoRef
    THEN x[id].split
    ELSE IF x[id].merge # NoRef /\ x[x[id].merge].split # id
         THEN x[id].merge
         ELSE NoRef

\* C14: the target an entry placed on the master grid seeks is its split
\* source when it has one, its merge target only when it has no split.
C14_SplitTargetFirst ==
    \A k \in 1..Len(log) :
        log[k].gref = Master => log[k].seek = SplitFirstTarget(ents, log[k].id)

\* C15: an entry whose target has row r, with row r free for the entry's
\* span, is given row r.
C15_TargetRowFirst ==
    \A k \in 1..Len(log) :
        (/\ log[k].seek # NoRef
         /\ HasRow(log[k].before, log[k].near)
         /\ checkGridSpace(log[k].near, log[k].start, log[k].end, log[k].before))
            => log[k].row = log[k].near

\* ------------------------------------------- the grid methods, one call
\* a row as _blockGridSpace leaves it after one span on an empty row
BlockedRow(sp) ==
    blockGridSpace(0, yearToGrid(sp[1]), yearToGrid(sp[2]), <<NewRow>>)[1]

\* the rows of the grids the methods are called on
RowPatterns == {NewRow} \cup {BlockedRow(sp) : sp \in SpanKinds}

\* the grids the methods are called on
Grids == UNION {[1..n -> RowPatterns] : n \in 1..MaxGridRows}

\* the slot pairs start <= end of a call
SlotPairs == {p \in (0..XLen) \X (0..XLen) : p[1] <= p[2]}

\* the positioner's grid is any of Grids and no method has been called
GridInit ==
    /\ CalculateIdle
    /\ grid \in Grids
    /\ container = <<>>
    /\ call = <<>>
    /\ gcall = <<>>
    /\ PanIdle

\* the record of a call: near is the argument of _findGridSpace, y the row
\* argument of the other methods, row and free the value returned
Called(op, near, y, p, row, free) ==
    <<[op |-> op, near |-> near, y |-> y, start |-> p[1], end |-> p[2],
       before |-> grid, row |-> row, free |-> free]>>

nonGridVars == <<input, ents, groups, groupGrids, groupRange, grouped, ungrouped,
                 increment, rowCount, idx, pc, log, stackLog, pass, rows1,
                 container, call, timers, classList, dispatched, panned>>

\* this._findGridSpace(start, end, this._grid, near), near omitted or a row
FindGridSpace ==
    /\ gcall = <<>>
    /\ \E p \in SlotPairs, near \in {NoRow} \cup (0..(Len(grid) - 1)) :
          LET f == findGridSpace(p[1], p[2], grid, near)
          IN  /\ grid' = f.grid
              /\ gcall' = Called("find", near, NoRow, p, f.row, FALSE)
    /\ UNCHANGED err
    /\ UNCHANGED nonGridVars

\* this._checkGridSpace(y, start, end, this._grid) on an existing row
CheckGridSpace ==
    /\ gcall = <<>>
    /\ \E p \in SlotPairs, y \in 0..(Len(grid) - 1) :
          gcall' = Called("check", NoRow, y, p, NoRow,
                          checkGridSpace(y, p[1], p[2], grid))
    /\ UNCHANGED <<grid, err>>
    /\ UNCHANGED nonGridVars

\* _blockGridSpace on a grid that grows a missing row instead of throwing
BlockGridSpaceGrowing ==
    /\ gcall = <<>>
    /\ \E p \in SlotPairs, y \in 0..Len(grid) :
          /\ gcall' = Called("block", NoRow, y, p, NoRow, FALSE)
          /\ grid' = blockGridSpace(y, p[1], p[2],
                                    IF HasRow(grid, y) THEN grid ELSE addGridRow(grid))
          /\ err' = err
    /\ UNCHANGED nonGridVars

\* this._blockGridSpace(y, start, end, this._grid); row y exists or is the
\* first row the grid does not have
BlockGridSpace ==
    /\ gcall = <<>>
    /\ \E p \in SlotPairs, y \in 0..Len(grid) :
          /\ gcall' = Called("block", NoRow, y, p, NoRow, FALSE)
          /\ IF HasRow(grid, y)
             THEN /\ grid' = blockGridSpace(y, p[1], p[2], grid)
                  /\ err' = err
             ELSE /\ grid' = grid
                  /\ err' = MarkError
    /\ UNCHANGED nonGridVars

\* this._freeGridSpace(y, start, end, this._grid); row y exists or is the
\* first row the grid does not have
FreeGridSpace ==
    /\ gcall = <<>>
    /\ \E p \in SlotPairs, y \in 0..Len(grid) :
          /\ gcall' = Called("free", NoRow, y, p, NoRow, FALSE)
          /\ IF HasRow(grid, y)
             THEN /\ grid' = freeGridSpace(y, p[1], p[2], grid)
                  /\ err' = err
             ELSE /\ grid' = grid
                  /\ err' = MarkError
    /\ UNCHANGED nonGridVars

\* this._getGridOverlap(this._grid, grid2): the grid of a group and the grid
\* of the group after it
GetGridOverlap ==
    /\ gcall = <<>>
    /\ \E grid2 \in Grids :
          gcall' = <<[op |-> "overlap", near |-> NoRow, y |-> NoRow, start |-> 0,
                      end |-> 0, before |-> grid, row |-> getGridOverlap(grid, grid2),
                      free |-> FALSE, grid2 |-> grid2]>>
    /\ UNCHANGED <<grid, err>>
    /\ UNCHANGED nonGridVars

\* this._freeGridSpace(y, start, end, this._grid) with the arguments of the
\* reservation made before it, as _moveEntry releases the span an entry holds
FreeReserved ==
    /\ Len(gcall) = 1
    /\ gcall[1].op = "block"
    /\ err = NoError
    /\ grid' = freeGridSpace(gcall[1].y, gcall[1].start, gcall[1].end, grid)
    /\ gcall' = <<[gcall[1] EXCEPT !.op = "block, free"]>>
    /\ UNCHANGED err
    /\ UNCHANGED nonGridVars

GridNext ==
    \/ FindGridSpace
    \/ CheckGridSpace
    \/ BlockGridSpace
    \/ FreeGridSpace
    \/ GetGridOverlap
    \/ FreeReserved

GridSpec == GridInit /\ [][GridNext]_vars

\* the rows of g free for [start, end)
FreeRows(g, start, end) ==
    {y \in 0..(Len(g) - 1) : checkGridSpace(y, start, end, g)}

\* C16: _findGridSpace appends a row only if no row is free for the span:
\* when a row is free, an existing row is returned and the grid keeps its
\* row count, whatever near is.
C16_AppendOnlyWhenFull ==
    \A c \in 1..Len(gcall) :
        (gcall[c].op = "find"
         /\ FreeRows(gcall[c].before, gcall[c].start, gcall[c].end) # {})
            => /\ gcall[c].row < Len(gcall[c].before)
               /\ Len(grid) = Len(gcall[c].before)

\* C17: with near omitted, _findGridSpace returns the free row nearest to
\* row floor(rowCount / 2), the lower one of two equally near, and leaves
\* the grid as it is; only when no row is free does it append a row and
\* return its index.
C17_CentreOutward ==
    \A c \in 1..Len(gcall) :
        (gcall[c].op = "find" /\ gcall[c].near = NoRow) =>
            LET before == gcall[c].before
                centre == Len(before) \div 2
                free == FreeRows(before, gcall[c].start, gcall[c].end)
                row == gcall[c].row
            IN  IF free = {}
                THEN row = Len(before) /\ grid = Append(before, NewRow)
                ELSE /\ row \in free
                     /\ grid = before
                     /\ \A y \in free :
                           \/ Abs(row - centre) < Abs(y - centre)
                           \/ Abs(row - centre) = Abs(y - centre) /\ row <= y

\* C17 witness: near omitted on a grid of three rows, the centre row taken,
\* the rows below and above it free: the lower one is returned.
C17_Witness ==
    /\ Len(gcall) = 1
    /\ gcall[1].op = "find"
    /\ gcall[1].near = NoRow
    /\ FreeRows(gcall[1].before, gcall[1].start, gcall[1].end) = {0, 2}
    /\ gcall[1].row = 0

\* the slots of [start, end), start = end standing for [start, start + 1)
SpanSlots(start, end) == IF start = end THEN {start} ELSE start..(end - 1)

\* C18: _checkGridSpace(y, start, end) returns true iff no slot of row y in
\* [start, end) is blocked, start = end being checked as [start, start + 1),
\* and leaves the grid as it is.
C18_FreeIffNoSlotBlocked ==
    \A c \in 1..Len(gcall) :
        gcall[c].op = "check" =>
            /\ gcall[c].free =
                   ~(\E x \in SpanSlots(gcall[c].start, gcall[c].end) \cap (0..(XLen - 1)) :
                        gcall[c].before[gcall[c].y + 1][x + 1])
            /\ grid = gcall[c].before

\* C18 witness: a point span checked on a slot that is blocked.
C18_Witness ==
    /\ Len(gcall) = 1
    /\ gcall[1].op = "check"
    /\ gcall[1].start = gcall[1].end
    /\ gcall[1].start < XLen
    /\ gcall[1].before[gcall[1].y + 1][gcall[1].start + 1]
    /\ ~gcall[1].free

\* the slots a reservation of [start, end) is to mark: the span, the slot
\* before it and the slot after it, those of them the row has
MarkedSlots(start, end) ==
    {x \in 0..(XLen - 1) : (start <= x /\ x < end) \/ x = start - 1 \/ x = end}

\* C19: _blockGridSpace and _freeGridSpace on an existing row y set the
\* slots of [start, end), slot start - 1 and slot end of row y, where the row
\* has them, to blocked or free, and change no other slot and no other row.
C19_MarkExactlySpanAndPadding ==
    \A c \in 1..Len(gcall) :
        (gcall[c].op \in {"block", "free"} /\ HasRow(gcall[c].before, gcall[c].y)) =>
            /\ Len(grid) = Len(gcall[c].before)
            /\ \A r \in 1..Len(grid), x \in 0..(XLen - 1) :
                  grid[r][x + 1] =
                      IF r = gcall[c].y + 1 /\ x \in MarkedSlots(gcall[c].start, gcall[c].end)
                      THEN gcall[c].op = "block"
                      ELSE gcall[c].before[r][x + 1]

\* C20: after _blockGridSpace(y, s, s) on an existing row, slot s in bounds,
\* _checkGridSpace(y, s, s) is false.
C20_PointEntryTakesSlot ==
    \A c \in 1..Len(gcall) :
        (/\ gcall[c].op = "block"
         /\ HasRow(gcall[c].before, gcall[c].y)
         /\ gcall[c].start = gcall[c].end
         /\ gcall[c].start < XLen)
            => ~checkGridSpace(gcall[c].y, gcall[c].start, gcall[c].end, grid)

\* ------------------------------------------------------ class DiagramGrid
\* the value false of a slot, as addGridRow fills a row with
FalseSlot == "false"

\* the array this._grid of the DiagramGrid, as a slot holds it
GridObject == "this._grid"

\* DiagramGrid.addGridRow: new Array(this._xlength).fill(false)
DiagramGrid_addGridRow(g) == Append(g, [x \in 1..XLen |-> FalseSlot])

\* DiagramGrid.checkGridSpace: slice(start, end).every(e => e === false)
DiagramGrid_checkGridSpace(y, start, end, g) ==
    LET e2 == IF start = end THEN end + 1 ELSE end
    IN  \A x \in start..(e2 - 1) :
            (x >= 0 /\ x < Len(g[y + 1])) => g[y + 1][x + 1] = FalseSlot

\* DiagramGrid._markGridSpace(y, start, end, state) on an existing row
DiagramGrid_markGridSpace(y, start, end, state, g) ==
    [g EXCEPT ![y + 1] =
        [x1 \in 1..Len(g[y + 1]) |->
            LET x == x1 - 1
            IN  IF \/ (x >= start /\ x < end)
                   \/ (start > 0 /\ x = start - 1)
                   \/ (end < Len(g[1]) - 1 /\ x = end)
                THEN state
                ELSE g[y + 1][x1]]]

\* DiagramGrid.blockGridSpace: this._markGridSpace(y, start, end, this._grid, true),
\* the fourth argument, this._grid, is the parameter state; true is dropped
DiagramGrid_blockGridSpace(y, start, end, g) ==
    DiagramGrid_markGridSpace(y, start, end, GridObject, g)

\* DiagramGrid.freeGridSpace: this._markGridSpace(y, start, end, this._grid, false),
\* the fourth argument, this._grid, is the parameter state; false is dropped
DiagramGrid_freeGridSpace(y, start, end, g) ==
    DiagramGrid_markGridSpace(y, start, end, GridObject, g)

\* the rows of the DiagramGrids the methods are called on: a new row, or a
\* new row with one span reserved
DiagramGridRows ==
    {DiagramGrid_addGridRow(<<>>)[1]}
        \cup {DiagramGrid_blockGridSpace(0, yearToGrid(sp[1]), yearToGrid(sp[2]),
                                         DiagramGrid_addGridRow(<<>>))[1] :
                 sp \in SpanKinds}

DiagramGrids == UNION {[1..n -> DiagramGridRows] : n \in 1..MaxGridRows}

\* grid is this._grid of a DiagramGrid and no method has been called
DiagramGridInit ==
    /\ CalculateIdle
    /\ grid \in DiagramGrids
    /\ container = <<>>
    /\ call = <<>>
    /\ gcall = <<>>
    /\ PanIdle

\* DiagramGrid.addGridRow()
DiagramGridAddRow ==
    /\ gcall = <<>>
    /\ Len(grid) <= MaxGridRows
    /\ grid' = DiagramGrid_addGridRow(grid)
    /\ gcall' = <<[op |-> "addRow", y |-> NoRow, start |-> 0, end |-> 0,
                   before |-> grid, free |-> FALSE]>>
    /\ UNCHANGED err
    /\ UNCHANGED nonGridVars

\* DiagramGrid.checkGridSpace(y, start, end) on an existing row
DiagramGridCheck ==
    /\ gcall = <<>>
    /\ \E p \in SlotPairs, y \in 0..(Len(grid) - 1) :
          gcall' = <<[op |-> "check", y |-> y, start |-> p[1], end |-> p[2],
                      before |-> grid,
                      free |-> DiagramGrid_checkGridSpace(y, p[1], p[2], grid)]>>
    /\ UNCHANGED <<grid, err>>
    /\ UNCHANGED nonGridVars

\* DiagramGrid.blockGridSpace(y, start, end); row y exists or is the first
\* row the grid does not have
DiagramGridBlock ==
    /\ gcall = <<>>
    /\ \E p \in SlotPairs, y \in 0..Len(grid) :
          /\ gcall' = <<[op |-> "block", y |-> y, start |-> p[1], end |-> p[2],
                         before |-> grid, free |-> FALSE]>>
          /\ IF HasRow(grid, y)
             THEN /\ grid' = DiagramGrid_blockGridSpace(y, p[1], p[2], grid)
                  /\ err' = err
             ELSE /\ grid' = grid
                  /\ err' = MarkError
    /\ UNCHANGED nonGridVars

\* DiagramGrid.freeGridSpace(y, start, end); row y exists or is the first
\* row the grid does not have
DiagramGridFree ==
    /\ gcall = <<>>
    /\ \E p \in SlotPairs, y \in 0..Len(grid) :
          /\ gcall' = <<[op |-> "free", y |-> y, start |-> p[1], end |-> p[2],
                         before |-> grid, free |-> FALSE]>>
          /\ IF HasRow(grid, y)
             THEN /\ grid' = DiagramGrid_freeGridSpace(y, p[1], p[2], grid)
                  /\ err' = err
             ELSE /\ grid' = grid
                  /\ err' = MarkError
    /\ UNCHANGED nonGridVars

DiagramGridNext ==
    \/ DiagramGridAddRow
    \/ DiagramGridCheck
    \/ DiagramGridBlock
    \/ DiagramGridFree

DiagramGridSpec == DiagramGridInit /\ [][DiagramGridNext]_vars

\* C21: after DiagramGrid.freeGridSpace(y, start, end) on an existing row
\* with start < end, every slot of [start, end) of row y is free, so
\* DiagramGrid.checkGridSpace(y, start, end) returns true.
C21_FreeReleasesSpan ==
    \A c \in 1..Len(gcall) :
        (/\ gcall[c].op = "free"
         /\ HasRow(gcall[c].before, gcall[c].y)
         /\ gcall[c].start < gcall[c].end)
            => /\ \A x \in gcall[c].start..(gcall[c].end - 1) :
                     grid[gcall[c].y + 1][x + 1] = FalseSlot
               /\ DiagramGrid_checkGridSpace(gcall[c].y, gcall[c].start, gcall[c].end, grid)

\* C22: _blockGridSpace and _freeGridSpace on a row index the grid does not
\* have throw the error and write no slot: the grid is as it was before
\* the call.
C22_MissingRowThrowsUnchanged ==
    \A c \in 1..Len(gcall) :
        (gcall[c].op \in {"block", "free"} /\ ~HasRow(gcall[c].before, gcall[c].y))
            => err = MarkError /\ grid = gcall[c].before

\* C22 witness: a span reserved on the row after the last one of a grid
\* that has blocked slots.
C22_Witness ==
    /\ Len(gcall) = 1
    /\ gcall[1].op = "block"
    /\ gcall[1].y = Len(gcall[1].before)
    /\ gcall[1].start < gcall[1].end
    /\ \E r \in 1..Len(grid), x \in 1..XLen : grid[r][x]
    /\ err = MarkError

\* C23: a reservation or release on a row the grid does not have ends
\* calculate() with the error: the layout takes no further step, and no
\* _setEntryRow step goes on after a reservation on a missing row (the one
\* reservation made inside a try block always finds its row).
C23_MarkErrorReachesCaller ==
    /\ err = MarkError => pc = "error"
    /\ (err = NoError /\ pc # "idle") =>
           \A l \in 1..Len(log) :
               HasRow(IF log[l].gref = Master THEN grid ELSE groupGrids[log[l].gref],
                      log[l].row)

\* C23 witness: a _setEntryRow step has given an entry a row, the release
\* of its successor's row met a missing row, and calculate() has ended with
\* the error.
C23_Witness ==
    /\ err = MarkError
    /\ pc = "error"
    /\ Len(log) > 0

\* stacking the last k rows of A onto the first k rows of B blocks no
\* slot twice
StackFits(A, B, k) ==
    \A i \in 0..(k - 1), x \in 1..XLen : ~(A[Len(A) - k + i + 1][x] /\ B[i + 1][x])

\* C24: _getGridOverlap(A, B) returns the largest k of 0 .. min(len A, len B) - 1
\* for which the last k rows of A and the first k rows of B block no slot
\* twice, 0 when no positive k fits, and changes neither grid.
C24_LargestFittingOverlap ==
    \A c \in 1..Len(gcall) :
        gcall[c].op = "overlap" =>
            LET A == gcall[c].before
                B == gcall[c].grid2
                most == Min(Len(A), Len(B)) - 1
                k == gcall[c].row
            IN  /\ k \in 0..most
                /\ StackFits(A, B, k)
                /\ \A j \in (k + 1)..most : ~StackFits(A, B, j)
                /\ grid = A

\* C24 witness: two grids of three rows that cannot overlap by two rows and
\* can by one.
C24_Witness ==
    /\ Len(gcall) = 1
    /\ gcall[1].op = "overlap"
    /\ Len(gcall[1].before) = 3
    /\ Len(gcall[1].grid2) = 3
    /\ gcall[1].row = 1

\* the slots of [start, end) of row y of g are all blocked
SpanReserved(g, y, start, end) ==
    HasRow(g, y) /\ \A x \in start..(end - 1) : g[y + 1][x + 1]

\* C25: when the loop that blocks the grouped rows has ended without an
\* error, before the connections between groups are adjusted and before any
\* ungrouped entry is placed, the master grid has the span of every entry
\* that has a row reserved on that row, manual rows included.
C25_RowsReservedBeforeRepair ==
    (pc = "grow" /\ Len(grid) - 1 = rowCount /\ pass = 1) =>
        LET d == blockGrouped(Positioner, grouped, 1)
        IN  d.err = NoError =>
                \A e \in DOMAIN ents :
                    ents[e].row >= 0 =>
                        SpanReserved(d.grid, ents[e].row, yearToGrid(ents[e].start),
                                     yearToGrid(ents[e].end))

\* the first entry of list the adjusting loop calls _adjustConnectedEntry
\* for, 0 when there is none
RECURSIVE FirstConnected(_, _, _)
FirstConnected(es, list, k) ==
    IF k > Len(list)
    THEN 0
    ELSE IF es[list[k]].split # NoRef \/ es[list[k]].merge # NoRef
         THEN list[k]
         ELSE FirstConnected(es, list, k + 1)

\* C26: when _adjustConnectedEntry moves a grouped entry whose split or
\* merge target is in another group and has a row, the entry's new row lies
\* between its previous row and the target's row. Stated for the first call
\* the adjusting loop makes, on the grid as the blocking loop left it.
C26_MoveTowardsTarget ==
    (pc = "grow" /\ Len(grid) - 1 = rowCount /\ pass = 1) =>
        LET d0 == blockGrouped(Positioner, grouped, 1)
            e == FirstConnected(ents, grouped, 1)
        IN  (d0.err = NoError /\ e # 0) =>
                LET t == IF ents[e].split # NoRef THEN ents[e].split ELSE ents[e].merge
                    d1 == adjustConnectedEntry(d0, e, groupRange)
                IN  (/\ Exists(ents, t)
                     /\ ents[t].group # NoGroup
                     /\ ents[t].group # ents[e].group
                     /\ ents[t].row >= 0
                     /\ d1.err = NoError
                     /\ d1.ents[e].row # ents[e].row)
                        => /\ Min(ents[e].row, ents[t].row) <= d1.ents[e].row
                           /\ d1.ents[e].row <= Max(ents[e].row, ents[t].row)

\* the entries of x have no manual row, no group and no relation
PlainEntries(x) ==
    \A i \in DOMAIN x :
        /\ x[i].row = NoRow
        /\ x[i].group = NoGroup
        /\ RefsOf(x, i) = {}

\* C27: with no manual rows, no groups and no become, split or merge, every
\* entry gets a row whose slots of [start, end) were all free when it was
\* assigned, and after calculate() two entries whose non-empty [start, end)
\* intervals overlap have different rows, in every input order.
C27_PlainEntriesNeverOverlap ==
    (PlainEntries(input) /\ pass = 1) =>
        /\ \A l \in 1..Len(log) :
               log[l].row < Len(log[l].before) =>
                   \A x \in log[l].start..(log[l].end - 1) :
                       ~log[l].before[log[l].row + 1][x + 1]
        /\ pc = "done" =>
               \A a, b \in DOMAIN ents :
                   (a # b /\ Overlap(ents, a, b)) => ents[a].row # ents[b].row

\* C27 witness: three plain entries laid out on three rows, the second and
\* third each overlapping an entry placed before it.
C27_Witness ==
    /\ PlainEntries(input)
    /\ Done1
    /\ Len(ents) = 3
    /\ Overlap(ents, 1, 2) /\ Overlap(ents, 1, 3) /\ Overlap(ents, 2, 3)
    /\ {ents[i].row : i \in DOMAIN ents} = {0, 1, 2}

\* C28: with no manual rows and no become, split or merge, when the groups
\* are stacked no two entries of different groups whose non-empty
\* [start, end) intervals overlap have the same master row, for any number
\* of groups and any group heights.
C28_StackedGroupsNeverOverlap ==
    (/\ pc = "grow"
     /\ pass = 1
     /\ \A i \in DOMAIN input : input[i].row = NoRow /\ RefsOf(input, i) = {}) =>
        \A a, b \in DOMAIN ents :
            (/\ ents[a].group # NoGroup
             /\ ents[b].group # NoGroup
             /\ ents[a].group # ents[b].group
             /\ Overlap(ents, a, b))
                => ents[a].row # ents[b].row

\* C29: when row y is free for [start, end), _blockGridSpace(y, start, end)
\* followed by _freeGridSpace(y, start, end) leaves row y with the contents
\* it had before, the padding slots of neighbouring entries included.
C29_ReserveReleaseRoundTrip ==
    \A c \in 1..Len(gcall) :
        (/\ gcall[c].op = "block, free"
         /\ checkGridSpace(gcall[c].y, gcall[c].start, gcall[c].end, gcall[c].before))
            => grid[gcall[c].y + 1] = gcall[c].before[gcall[c].y + 1]

\* ------------------------------------------------- Timeline.panToEntry
MaxPans == 3

\* the delays of the two timers of panToEntry, in milliseconds
HighlightDelay == 500
ClearDelay == 2000

\* the ids panToEntry is called with: the two entries of the container and
\* the id of no element
PanIds == {"a", "b", "c"}

\* the classes panToEntry adds and removes
PanClasses == {"highlight", "hover"}

\* setTimeout(callback, ms): the timer joins the pending ones
setTimeout(q, op, target, ms) == Append(q, [op |-> op, target |-> target, ms |-> ms])

\* the two setTimeout calls of panToEntry with the delays exchanged
scheduleHighlightExchanged(q, target) ==
    setTimeout(setTimeout(q, "add", target, ClearDelay), "remove", target, HighlightDelay)

\* the two setTimeout calls of panToEntry
scheduleHighlight(q, target) ==
    setTimeout(setTimeout(q, "add", target, HighlightDelay), "remove", target, ClearDelay)

\* timer k may fire: no timer set before it with a delay not longer than
\* its own is still pending
timerReady(q, k) == \A j \in 1..(k - 1) : q[j].ms > q[k].ms

\* q without its k-th timer
withoutTimer(q, k) == [i \in 1..(Len(q) - 1) |-> IF i < k THEN q[i] ELSE q[i + 1]]

\* the container holds the entries a and b, Panzoom is enabled (this._pz is
\* defined) and panToEntry has not been called
PanInit ==
    /\ LayoutIdle
    /\ container = <<createEntry([id |-> "a", name |-> "A", start |-> "1950"]),
                     createEntry([id |-> "b", name |-> "A", start |-> "1950"])>>
    /\ call = <<>>
    /\ gcall = <<>>
    /\ timers = <<>>
    /\ classList = [id \in {"a", "b"} |-> {}]
    /\ dispatched = <<>>
    /\ panned = <<>>

\* panToEntry(id): for the id of no element, target is null and reading
\* target.style throws before the event is dispatched
PanToEntry ==
    /\ Len(panned) < MaxPans
    /\ \E id \in PanIds :
          /\ panned' = Append(panned, id)
          /\ IF \E i \in 1..Len(container) : container[i].id = id
             THEN /\ dispatched' = Append(dispatched, [call |-> Len(panned) + 1, id |-> id])
                  /\ timers' = scheduleHighlight(timers, id)
             ELSE UNCHANGED <<dispatched, timers>>
    /\ UNCHANGED <<classList, container, call, gcall>>
    /\ UNCHANGED layoutVars

\* a timer fires and its callback runs
TimerFires ==
    /\ \E k \in 1..Len(timers) :
          /\ timerReady(timers, k)
          /\ classList' = [classList EXCEPT ![timers[k].target] =
                              IF timers[k].op = "add"
                              THEN @ \cup PanClasses
                              ELSE @ \ PanClasses]
          /\ timers' = withoutTimer(timers, k)
    /\ UNCHANGED <<dispatched, panned, container, call, gcall>>
    /\ UNCHANGED layoutVars

PanNext ==
    \/ PanToEntry
    \/ TimerFires

PanSpec == PanInit /\ [][PanNext]_vars

\* C30: with Panzoom enabled, after any sequence of panToEntry calls, when
\* every timer set has fired no entry has the class highlight or hover, and
\* every call on an entry has dispatched exactly one timelineFind event,
\* which carries the id of the call.
C30_HighlightCleared ==
    /\ timers = <<>> => \A id \in DOMAIN classList : classList[id] \cap PanClasses = {}
    /\ \A c \in 1..Len(panned) :
           (\E i \in 1..Len(container) : container[i].id = panned[c]) =>
               /\ Cardinality({e \in 1..Len(dispatched) : dispatched[e].call = c}) = 1
               /\ \A e \in 1..Len(dispatched) :
                      dispatched[e].call = c => dispatched[e].id = panned[c]

\* C30 witness: panToEntry was called three times, twice on one entry and
\* once on the other, and all six timers have fired.
C30_Witness ==
    /\ Len(panned) = 3
    /\ panned[1] = panned[3]
    /\ panned[2] # panned[1]
    /\ Len(dispatched) = 3
    /\ timers = <<>>

====
